---- MODULE Spec2Model ----
(***************************************************************************)
(* Real-estate property search agent: the query interpreter                *)
(* (agent.analyze_query), the result formatter (agent.format_results) and  *)
(* the two presentation adapters, the command-line loop                    *)
(* (agent.property_search_flow) and the Streamlit form script (app.py).    *)
(*                                                                         *)
(* Python values are tagged records.  A Python str is a sequence of text   *)
(* units: a user's input is a sequence of characters, a model reply is a   *)
(* sequence of JSON lexemes, a parsed JSON string is one unit.             *)
(***************************************************************************)
EXTENDS Integers, Sequences, FiniteSets, TLC

\* Number of user turns (CLI loop iterations / form script runs) explored.
MaxTurns == 2

-----------------------------------------------------------------------------
(* Python values *)

None == [kind |-> "none"]
Str(s) == [kind |-> "str", s |-> s]
Num(n) == [kind |-> "num", n |-> n]
List(xs) == [kind |-> "list", items |-> xs]
Dict(d) == [kind |-> "dict", d |-> d]
Object(o) == [kind |-> "object", obj |-> o]

\* Python truthiness, as used by `if x:` and `not x`.
Truthy(v) ==
    CASE v.kind = "none" -> FALSE
      [] v.kind = "str" -> Len(v.s) > 0
      [] v.kind = "num" -> v.n # 0
      [] v.kind = "list" -> Len(v.items) > 0
      [] v.kind = "dict" -> DOMAIN v.d # {}
      [] OTHER -> TRUE

\* Only a dict has the .get method the adapters call on the analysis.
HasGet(v) == v.kind = "dict"

\* dict.get(key, default)
Get(v, key, default) == IF key \in DOMAIN v.d THEN v.d[key] ELSE default

\* key in dict
In(key, v) == key \in DOMAIN v.d

Range(f) == {f[i] : i \in DOMAIN f}

IsPrefix(s, t) == Len(s) <= Len(t) /\ SubSeq(t, 1, Len(s)) = s

-----------------------------------------------------------------------------
(* str.strip and str.lower on character sequences *)

Whitespace == {" ", "\t", "\n"}

RECURSIVE LStrip(_)
LStrip(s) == IF s # <<>> /\ Head(s) \in Whitespace THEN LStrip(Tail(s)) ELSE s

RECURSIVE RStrip(_)
RStrip(s) ==
    IF s # <<>> /\ s[Len(s)] \in Whitespace
    THEN RStrip(SubSeq(s, 1, Len(s) - 1))
    ELSE s

Strip(s) == RStrip(LStrip(s))

UpperToLower ==
    ("E" :> "e") @@ ("X" :> "x") @@ ("I" :> "i") @@ ("T" :> "t") @@
    ("Q" :> "q") @@ ("U" :> "u") @@ ("Y" :> "y") @@ ("S" :> "s") @@
    ("B" :> "b") @@ ("H" :> "h") @@ ("K" :> "k") @@ ("N" :> "n") @@ ("O" :> "o")

LowerChar(c) == IF c \in DOMAIN UpperToLower THEN UpperToLower[c] ELSE c

Lower(s) == [i \in 1..Len(s) |-> LowerChar(s[i])]

-----------------------------------------------------------------------------
(* json.loads on a sequence of lexemes *)

\* String lexemes (with their quotes) and the Python str they decode to.
Unquote ==
    ("\"status\"" :> "status") @@ ("\"question\"" :> "question") @@
    ("\"filters\"" :> "filters") @@ ("\"complete\"" :> "complete") @@
    ("\"incomplete\"" :> "incomplete") @@ ("\"error\"" :> "error") @@
    ("\"partial\"" :> "partial") @@ ("\"flatType\"" :> "flatType") @@
    ("\"3BHK\"" :> "3BHK") @@ ("\"price\"" :> "price") @@
    ("\"$lte\"" :> "$lte") @@
    ("\"Which area and budget?\"" :> "Which area and budget?")

\* Number lexemes and their values.
NumberOf == ("20000" :> 20000) @@ ("42" :> 42)

ParseOk(v, next) == [ok |-> TRUE, v |-> v, next |-> next]
ParseErr(msg) == [ok |-> FALSE, msg |-> msg]

RECURSIVE ParseValue(_, _)
RECURSIVE ParseMembers(_, _, _)
RECURSIVE ParseElements(_, _, _)

\* The JSON value that starts at lexeme i of t.
ParseValue(t, i) ==
    IF i > Len(t) THEN ParseErr("Expecting value")
    ELSE IF t[i] \in DOMAIN Unquote THEN ParseOk(Str(<<Unquote[t[i]]>>), i + 1)
    ELSE IF t[i] \in DOMAIN NumberOf THEN ParseOk(Num(NumberOf[t[i]]), i + 1)
    ELSE IF t[i] = "null" THEN ParseOk(None, i + 1)
    ELSE IF t[i] = "{" THEN
        IF i + 1 <= Len(t) /\ t[i + 1] = "}"
        THEN ParseOk(Dict(<<>>), i + 2)
        ELSE ParseMembers(t, i + 1, <<>>)
    ELSE IF t[i] = "[" THEN
        IF i + 1 <= Len(t) /\ t[i + 1] = "]"
        THEN ParseOk(List(<<>>), i + 2)
        ELSE ParseElements(t, i + 1, <<>>)
    ELSE ParseErr("Expecting value")

\* The members of an object from the key at lexeme i on; a repeated key keeps
\* its last value.
ParseMembers(t, i, d) ==
    IF i > Len(t) \/ t[i] \notin DOMAIN Unquote
    THEN ParseErr("Expecting property name enclosed in double quotes")
    ELSE IF i + 1 > Len(t) \/ t[i + 1] # ":"
    THEN ParseErr("Expecting ':' delimiter")
    ELSE LET r == ParseValue(t, i + 2) IN
        IF ~r.ok THEN r
        ELSE LET d2 == (Unquote[t[i]] :> r.v) @@ d IN
            IF r.next <= Len(t) /\ t[r.next] = "}" THEN ParseOk(Dict(d2), r.next + 1)
            ELSE IF r.next <= Len(t) /\ t[r.next] = ","
            THEN ParseMembers(t, r.next + 1, d2)
            ELSE ParseErr("Expecting ',' delimiter")

\* The elements of an array from lexeme i on.
ParseElements(t, i, xs) ==
    LET r == ParseValue(t, i) IN
        IF ~r.ok THEN r
        ELSE IF r.next <= Len(t) /\ t[r.next] = "]"
        THEN ParseOk(List(Append(xs, r.v)), r.next + 1)
        ELSE IF r.next <= Len(t) /\ t[r.next] = ","
        THEN ParseElements(t, r.next + 1, Append(xs, r.v))
        ELSE ParseErr("Expecting ',' delimiter")

Returned(v) == [raised |-> FALSE, value |-> v]
Raised(type, msg) == [raised |-> TRUE, type |-> type, msg |-> msg]

\* json.loads(content): content must be a str holding exactly one JSON value.
json_loads(content) ==
    IF content.kind # "str"
    THEN Raised("TypeError", "the JSON object must be str, bytes or bytearray, not NoneType")
    ELSE LET r == ParseValue(content.s, 1) IN
        IF ~r.ok THEN Raised("JSONDecodeError", r.msg)
        ELSE IF r.next <= Len(content.s) THEN Raised("JSONDecodeError", "Extra data")
        ELSE Returned(r.v)

-----------------------------------------------------------------------------
(* The language-model provider's replies (litellm.completion's return value) *)

Message(content) == [role |-> "assistant", content |-> content]
Response(msgs) == [choices |-> [i \in 1..Len(msgs) |-> [message |-> msgs[i]]]]
TextReply(lexemes) == Response(<<Message(Str(lexemes))>>)

StatusComplete == <<"\"status\"", ":", "\"complete\"">>
StatusIncomplete == <<"\"status\"", ":", "\"incomplete\"">>
FiltersMember ==
    <<"\"filters\"", ":", "{", "\"flatType\"", ":", "\"3BHK\"", ",",
      "\"price\"", ":", "{", "\"$lte\"", ":", "20000", "}", "}">>
QuestionMember == <<"\"question\"", ":", "\"Which area and budget?\"">>

Replies ==
    << Response(<<>>),                                     \* no choices
       Response(<<Message(None)>>),                        \* content is None
       Response(<<[role |-> "assistant"]>>),               \* message without content
       TextReply(<<"Sorry,", "I", "cannot", "help.">>),    \* prose
       TextReply(<<>>),                                    \* empty text
       TextReply(<<"{">> \o StatusComplete),               \* truncated object
       TextReply(<<"{", "}", "{", "}">>),                  \* two values
       TextReply(<<"{">> \o StatusComplete \o <<",">> \o FiltersMember \o <<"}">>),
       TextReply(<<"{">> \o StatusIncomplete \o <<",">> \o QuestionMember \o <<"}">>),
       TextReply(<<"{">> \o StatusComplete \o <<"}">>),
       TextReply(<<"{">> \o StatusIncomplete \o <<"}">>),
       TextReply(<<"{">> \o StatusIncomplete \o <<",", "\"question\"", ":", "null", "}">>),
       TextReply(<<"{">> \o StatusIncomplete \o <<",">> \o QuestionMember
                     \o <<",">> \o FiltersMember \o <<"}">>),
       TextReply(<<"{">> \o StatusComplete \o <<",">> \o QuestionMember
                     \o <<",">> \o FiltersMember \o <<"}">>),
       TextReply(<<"{", "\"status\"", ":", "\"partial\"", ",">> \o FiltersMember \o <<"}">>),
       TextReply(<<"{", "\"status\"", ":", "\"error\"", "}">>),
       TextReply(<<"{">> \o QuestionMember \o <<"}">>),
       TextReply(<<"[", "42", "]">>),
       TextReply(<<"null">>) >>

-----------------------------------------------------------------------------
(* agent.py *)

SYSTEM_PROMPT == "You are an expert real estate assistant ..."

\* getattr(message, 'content', default)
GetattrContent(message, default) ==
    IF "content" \in DOMAIN message THEN message.content ELSE default

\* The try block of analyze_query.
AnalyzeTry(response) ==
    IF Len(response.choices) = 0
    THEN Raised("IndexError", "list index out of range")
    ELSE IF "content" \notin DOMAIN response.choices[1].message
    THEN Raised("AttributeError", "object has no attribute 'content'")
    ELSE json_loads(response.choices[1].message.content)

\* The except block of analyze_query, handling the exception e.
AnalyzeExcept(response, e) ==
    IF Len(response.choices) = 0
    THEN Raised("IndexError", "list index out of range")
    ELSE Returned(Dict([status |-> Str(<<"error">>),
                        error |-> Str(<<e.msg>>),
                        raw_response |-> GetattrContent(response.choices[1].message,
                                                        Object(response))]))

\* analyze_query(query, conversation_history), with the provider's reply.
\* The result records the request sent and the caller's list after the call.
analyze_query(query, conversation_history, response) ==
    LET messages == <<[role |-> "system", content |-> Str(<<SYSTEM_PROMPT>>)]>>
                        \o conversation_history
                        \o <<[role |-> "user", content |-> query]>>
        t == AnalyzeTry(response)
    IN [made |-> TRUE,
        query |-> query,
        messages |-> messages,
        response |-> response,
        history_after |-> conversation_history,
        result |-> IF t.raised THEN AnalyzeExcept(response, t) ELSE t]

NoCall == [made |-> FALSE]

\* The store's answer to one find(): the matching documents, or a fault.
P1 ==
    ("Property Name" :> Str(<<"Sunrise Towers">>)) @@ ("flatType" :> Str(<<"3BHK">>)) @@
    ("locality" :> Str(<<"Gachibowli">>)) @@ ("Rent/Buy" :> Str(<<"Rent">>)) @@
    ("Description" :> Str(<<"Lake view">>)) @@ ("price" :> Num(20000))
P2 == ("flatType" :> Str(<<"3BHK">>)) @@ ("price" :> Num(42))

StoreOutcomes ==
    << [fault |-> FALSE, docs |-> <<>>],
       [fault |-> FALSE, docs |-> <<P1>>],
       [fault |-> FALSE, docs |-> <<P2, P1>>],
       [fault |-> TRUE, docs |-> <<>>] >>

\* search_properties(filter_dict): list(collection.find(filter_dict))
search_properties(filter_dict, store) ==
    IF store.fault
    THEN Raised("PyMongoError", "find failed")
    ELSE Returned(List(store.docs))

NumberText == (20000 :> "20000") @@ (42 :> "42")

\* str(v), as an f-string replacement field applies it.
PyStr(v) ==
    CASE v.kind = "str" -> v.s
      [] v.kind = "num" -> <<NumberText[v.n]>>
      [] OTHER -> <<"None">>

PropGet(prop, key) == IF key \in DOMAIN prop THEN prop[key] ELSE Str(<<"N/A">>)

RECURSIVE Join(_, _)
Join(sep, strs) ==
    IF strs = <<>> THEN <<>>
    ELSE IF Len(strs) = 1 THEN strs[1]
    ELSE strs[1] \o <<sep>> \o Join(sep, Tail(strs))

prop_str(prop) ==
    <<"Property Name : \"">> \o PyStr(PropGet(prop, "Property Name")) \o <<"\"\n">> \o
    <<"flatType : \"">> \o PyStr(PropGet(prop, "flatType")) \o <<"\"\n">> \o
    <<"locality : \"">> \o PyStr(PropGet(prop, "locality")) \o <<"\"\n">> \o
    <<"Rent/Buy : \"">> \o PyStr(PropGet(prop, "Rent/Buy")) \o <<"\"\n">> \o
    <<"Description : \"">> \o PyStr(PropGet(prop, "Description")) \o <<"\"\n">> \o
    <<"price : ">> \o PyStr(PropGet(prop, "price")) \o <<"\n">>

NoPropertiesFound == "No properties found matching your criteria."

\* format_results with `if properties is None` for `if not properties`.
format_results_not_none(properties) ==
    IF properties.kind = "none"
    THEN Str(<<NoPropertiesFound>>)
    ELSE Str(Join("\n", [i \in 1..Len(properties.items) |-> prop_str(properties.items[i])]))

\* format_results(properties)
format_results(properties) ==
    IF ~Truthy(properties)
    THEN Str(<<NoPropertiesFound>>)
    ELSE Str(Join("\n", [i \in 1..Len(properties.items) |-> prop_str(properties.items[i])]))

-----------------------------------------------------------------------------
(* What the adapters share *)

Out(fn, arg) == [fn |-> fn, arg |-> arg]
Text(t) == Str(<<t>>)

CouldNotProcess == "Sorry, I could not process your request. Please try again."

\* AppendTurn as an assignment of a one-turn list instead of an append.
AppendTurn_replace(hist, role, content) == <<[role |-> role, content |-> content]>>

\* conversation_history.append({"role": role, "content": content})
AppendTurn(hist, role, content) == Append(hist, [role |-> role, content |-> content])

StatusIs(analysis, status) == Get(analysis, "status", None) = Text(status)

\* IsCompleteWithFilters without the test of the status.
IsCompleteWithFilters_any_status(analysis) == In("filters", analysis)

\* analysis.get("status") == "complete" and "filters" in analysis
IsCompleteWithFilters(analysis) ==
    StatusIs(analysis, "complete") /\ In("filters", analysis)

\* An uncaught exception ends the step: the CLI process dies with a traceback,
\* a form script run ends with the exception shown.
Abort(s, how, type) ==
    [s EXCEPT !.pc = how, !.halted = TRUE,
              !.output = Append(@, Out("exception", Text(type)))]

-----------------------------------------------------------------------------
(* agent.property_search_flow: one iteration of the while loop *)

\* IsExitCommand without the call of lower().
IsExitCommand_no_lower(user_input) ==
    user_input \in {<<"e", "x", "i", "t">>, <<"q", "u", "i", "t">>}

\* user_input.lower() in ('exit', 'quit')
IsExitCommand(user_input) ==
    Lower(user_input) \in {<<"e", "x", "i", "t">>, <<"q", "u", "i", "t">>}

\* refine in ('y', 'yes')
IsYes(refine) == refine \in {<<"y">>, <<"y", "e", "s">>}

\* Lines 143-161: the complete branch.
CliOnComplete(s, analysis, store, refine_raw) ==
    LET s1 == [s EXCEPT !.filters = analysis.d["filters"],
                        !.output = Append(@, Out("print", Text("Searching properties:"))),
                        !.events = Append(@, "db")]
        found == search_properties(s1.filters, store)
    IN IF found.raised THEN Abort(s1, "crashed", found.type)
       ELSE LET s2 == [s1 EXCEPT
                         !.results = found.value,
                         !.output = Append(@, Out("print",
                                       Str(<<"\n">> \o format_results(found.value).s))),
                         !.events = Append(@, "input")]
            IN IF IsYes(Lower(refine_raw))
               THEN [s2 EXCEPT !.output = Append(@, Out("print",
                                   Text("Please provide additional filters or modifications")))]
               ELSE [s2 EXCEPT !.output = Append(@, Out("print",
                                   Text("Thank you for using Property Search!"))),
                               !.pc = "done"]

\* Lines 131-164: the branches on the analysis.
CliDispatch(s, analysis, store, refine_raw) ==
    IF ~HasGet(analysis) THEN Abort(s, "crashed", "AttributeError")
    ELSE IF StatusIs(analysis, "error")
    THEN [s EXCEPT !.output = Append(@, Out("print",
                      Get(analysis, "raw_response", Text("No response received."))))]
    ELSE IF StatusIs(analysis, "incomplete")
    THEN IF ~In("question", analysis) THEN Abort(s, "crashed", "KeyError")
         ELSE IF analysis.d["question"].kind # "str" THEN Abort(s, "crashed", "TypeError")
         ELSE [s EXCEPT
                 !.output = Append(@, Out("print", Str(<<"\n">> \o analysis.d["question"].s))),
                 !.conversation_history = AppendTurn(@, "assistant", analysis.d["question"])]
    ELSE IF IsCompleteWithFilters(analysis)
    THEN CliOnComplete(s, analysis, store, refine_raw)
    ELSE [s EXCEPT !.output = Append(@, Out("print", Str(<<"\n", CouldNotProcess>>)))]

\* Lines 121-164: one pass through the loop body.  s holds the locals.
CliIteration(s, raw, response, store, refine_raw) ==
    LET user_input == Strip(raw)
        s0 == [s EXCEPT !.events = <<"input">>, !.output = <<>>, !.llm_call = NoCall]
    IN IF IsExitCommand(user_input)
       THEN [s0 EXCEPT !.output = <<Out("print", Text("Goodbye!"))>>, !.pc = "done"]
       ELSE LET call == analyze_query(Str(user_input), s.conversation_history, response)
                s1 == [s0 EXCEPT !.events = Append(@, "llm"),
                                 !.llm_call = call,
                                 !.conversation_history = call.history_after]
            IN IF call.result.raised THEN Abort(s1, "crashed", call.result.type)
               ELSE CliDispatch(
                        [s1 EXCEPT !.conversation_history =
                                       AppendTurn(@, "user", Str(user_input))],
                        call.result.value, store, refine_raw)

-----------------------------------------------------------------------------
(* app.py: one run of the script *)

\* Lines 29-30 and 47-48.
FormOnIncomplete(s, analysis) ==
    IF ~In("question", analysis) THEN Abort(s, "await", "KeyError")
    ELSE [s EXCEPT !.last_question = analysis.d["question"], !.results = None]

\* FormOnComplete without the reset of last_question.
FormOnComplete_keep_question(s, analysis, store) ==
    LET s1 == [s EXCEPT !.filters = analysis.d["filters"], !.events = Append(@, "db")]
        found == search_properties(s1.filters, store)
    IN IF found.raised THEN Abort(s1, "await", found.type)
       ELSE [s1 EXCEPT !.results = found.value]

\* Lines 32-34 and 50-52.
FormOnComplete(s, analysis, store) ==
    LET s1 == [s EXCEPT !.filters = analysis.d["filters"], !.events = Append(@, "db")]
        found == search_properties(s1.filters, store)
    IN IF found.raised THEN Abort(s1, "await", found.type)
       ELSE [s1 EXCEPT !.results = found.value, !.last_question = None]

\* Lines 36-38 and 54-56.
FormOnOther(s) ==
    [s EXCEPT !.output = Append(@, Out("error", Text(CouldNotProcess))),
              !.last_question = None,
              !.results = None]

\* Lines 23-38: the Search handler's branches on the analysis.
FormSearchDispatch(s, analysis, store) ==
    IF ~HasGet(analysis) THEN Abort(s, "await", "AttributeError")
    ELSE IF StatusIs(analysis, "error")
    THEN [s EXCEPT
            !.output = @ \o
                <<Out("error", Text("Sorry, there was an error understanding your request.")),
                  Out("write", Get(analysis, "raw_response", Text("No response received.")))>>,
            !.halted = TRUE]
    ELSE IF StatusIs(analysis, "incomplete") THEN FormOnIncomplete(s, analysis)
    ELSE IF IsCompleteWithFilters(analysis) THEN FormOnComplete(s, analysis, store)
    ELSE FormOnOther(s)

\* Lines 46-56: the Submit Clarification handler's branches on the analysis.
FormClarifyDispatch(s, analysis, store) ==
    IF ~HasGet(analysis) THEN Abort(s, "await", "AttributeError")
    ELSE IF StatusIs(analysis, "incomplete") THEN FormOnIncomplete(s, analysis)
    ELSE IF IsCompleteWithFilters(analysis) THEN FormOnComplete(s, analysis, store)
    ELSE FormOnOther(s)

\* Lines 20-38 (button "search") and 44-56 (button "clarify"): the interpreter
\* call, the user turn's append and the handler's branches.
FormHandler(s, button, text, response, store) ==
    LET call == analyze_query(Str(text), s.conversation_history, response)
        s1 == [s EXCEPT !.events = Append(@, "llm"),
                        !.llm_call = call,
                        !.conversation_history = call.history_after]
    IN IF call.result.raised THEN Abort(s1, "await", call.result.type)
       ELSE IF button = "search"
       THEN FormSearchDispatch(
                [s1 EXCEPT !.conversation_history = AppendTurn(@, "user", Str(text))],
                call.result.value, store)
       ELSE FormClarifyDispatch(
                [s1 EXCEPT !.conversation_history = AppendTurn(@, "user", Str(text))],
                call.result.value, store)

\* Lines 62-68: one listing of the results panel.
PanelListing(prop) ==
    << Out("markdown", Str(<<"**Property Name:** ">> \o PyStr(PropGet(prop, "Property Name")))),
       Out("write", Str(<<"flatType: ">> \o PyStr(PropGet(prop, "flatType")))),
       Out("write", Str(<<"locality: ">> \o PyStr(PropGet(prop, "locality")))),
       Out("write", Str(<<"Rent/Buy: ">> \o PyStr(PropGet(prop, "Rent/Buy")))),
       Out("write", Str(<<"Description: ">> \o PyStr(PropGet(prop, "Description")))),
       Out("write", Str(<<"price: ">> \o PyStr(PropGet(prop, "price")))),
       Out("markdown", Text("---")) >>

RECURSIVE PanelListings(_)
PanelListings(props) ==
    IF props = <<>> THEN <<>> ELSE PanelListing(Head(props)) \o PanelListings(Tail(props))

\* Lines 19-38: the Search button and its handler; button is the button
\* clicked in this run ("search", "clarify" or "none"), text its text box.
FormSearchSection(s, button, text, response, store) ==
    IF button = "search" /\ Truthy(Str(Strip(text)))
    THEN FormHandler(s, button, text, response, store)
    ELSE s

\* Lines 40-56: the pending question, the clarification box and its handler.
\* Nothing is drawn once the run has stopped.
FormClarifySection(s, button, text, response, store) ==
    IF s.halted \/ ~Truthy(s.last_question) THEN s
    ELSE IF button = "clarify" /\ Truthy(Str(Strip(text)))
    THEN FormHandler([s EXCEPT !.output = Append(@, Out("info", s.last_question)),
                               !.clarify_rendered = TRUE],
                     button, text, response, store)
    ELSE [s EXCEPT !.output = Append(@, Out("info", s.last_question)),
                   !.clarify_rendered = TRUE]

\* Lines 19-56: both sections, in order.
FormHandlers(s, button, text, response, store) ==
    FormClarifySection(FormSearchSection(s, button, text, response, store),
                       button, text, response, store)

\* Lines 58-70: the results panel.
FormResultsPanel(s) ==
    IF s.halted \/ s.results.kind = "none" THEN s
    ELSE IF Truthy(s.results)
    THEN [s EXCEPT !.output = Append(@, Out("subheader", Text("Search Results")))
                                  \o PanelListings(s.results.items)]
    ELSE [s EXCEPT !.output = @ \o <<Out("subheader", Text("Search Results")),
                                     Out("warning", Text(NoPropertiesFound))>>]

-----------------------------------------------------------------------------
(* The sessions *)

VARIABLES
    variant,               \* "cli": property_search_flow, "form": app.py
    pc,                    \* "await" (next input), "done" (loop left), "crashed"
    conversation_history,  \* the session's list of turns
    filters,               \* the last filter used
    results,               \* the last result set
    last_question,         \* form: the pending follow-up question
    clarify_rendered,      \* form: the last run drew the clarification box
    handler,               \* what the last step ran
    raw_input,             \* the text the user typed for the last step
    llm_call,              \* the last step's interpreter call, or NoCall
    events,                \* the last step's input reads and external calls, in order
    output,                \* what the last step displayed, in order
    turns                  \* user turns so far

vars == <<variant, pc, conversation_history, filters, results, last_question,
          clarify_rendered, handler, raw_input, llm_call, events, output, turns>>

UserInputs ==
    << <<"e", "x", "i", "t">>,
       <<" ", "E", "x", "i", "t", "\n">>,
       <<"Q", "U", "I", "T">>,
       <<"e", "x", "i", "t", "s">>,
       <<"3", "B", "H", "K", " ">>,
       <<" ">> >>

RefineAnswers == << <<"y">>, <<"Y", "E", "S">>, <<"n", "o">>, <<" ", "y">> >>

Session ==
    [pc |-> pc, conversation_history |-> conversation_history, filters |-> filters,
     results |-> results, last_question |-> last_question,
     clarify_rendered |-> clarify_rendered, llm_call |-> llm_call,
     events |-> events, output |-> output, halted |-> FALSE]

Becomes(s) ==
    /\ pc' = s.pc
    /\ conversation_history' = s.conversation_history
    /\ filters' = s.filters
    /\ results' = s.results
    /\ last_question' = s.last_question
    /\ clarify_rendered' = s.clarify_rendered
    /\ llm_call' = s.llm_call
    /\ events' = s.events
    /\ output' = s.output

Init ==
    /\ variant \in {"cli", "form"}
    /\ pc = "await"
    /\ conversation_history = <<>>
    /\ filters = Dict(<<>>)
    /\ results = None
    /\ last_question = None
    /\ clarify_rendered = FALSE
    /\ handler = "start"
    /\ raw_input = <<>>
    /\ llm_call = NoCall
    /\ events = <<>>
    /\ output = IF variant = "cli"
                THEN <<Out("print", Text("Welcome to Property Search! How can I help you?"))>>
                ELSE <<Out("write", Text("Enter your property search query below:"))>>
    /\ turns = 0

\* The provider replies only when called, the store answers only when queried
\* and the refine prompt is answered only when shown: a step draws each of
\* these inputs only if the handler, run up to that point, asks for it.
Calls(s, what) == what \in Range(s.events)
Prompts(s) == Len(SelectSeq(s.events, LAMBDA e : e = "input"))

ReplyChoices(s) == IF Calls(s, "llm") THEN DOMAIN Replies ELSE {1}
StoreChoices(s) == IF Calls(s, "db") THEN DOMAIN StoreOutcomes ELSE {1}
RefineChoices(s) == IF Prompts(s) > 1 THEN DOMAIN RefineAnswers ELSE {1}

\* The CLI user answers the prompt (and, after a search, the refine prompt).
CliTurn ==
    /\ variant = "cli"
    /\ pc = "await"
    /\ turns < MaxTurns
    /\ \E i \in DOMAIN UserInputs :
       \E r \in ReplyChoices(CliIteration(Session, UserInputs[i], Replies[1],
                                          StoreOutcomes[1], RefineAnswers[1])) :
       \E d \in StoreChoices(CliIteration(Session, UserInputs[i], Replies[r],
                                          StoreOutcomes[1], RefineAnswers[1])) :
       \E y \in RefineChoices(CliIteration(Session, UserInputs[i], Replies[r],
                                           StoreOutcomes[d], RefineAnswers[1])) :
          /\ Becomes(CliIteration(Session, UserInputs[i], Replies[r],
                                  StoreOutcomes[d], RefineAnswers[y]))
          /\ raw_input' = UserInputs[i]
    /\ handler' = "loop"
    /\ turns' = turns + 1
    /\ UNCHANGED variant

\* The state a form run starts from: nothing drawn yet, nothing called.
Rerun ==
    [Session EXCEPT !.events = <<>>, !.output = <<>>, !.llm_call = NoCall,
                    !.clarify_rendered = FALSE]

\* Lines 16-70: one run of the script, with the given button clicked and one of
\* the given texts in its box.
FormRun(button, texts) ==
    /\ \E text \in texts :
       \E r \in ReplyChoices(FormHandlers(Rerun, button, text, Replies[1], StoreOutcomes[1])) :
       \E d \in StoreChoices(FormHandlers(Rerun, button, text, Replies[r], StoreOutcomes[1])) :
       \E s \in {FormHandlers(Rerun, button, text, Replies[r], StoreOutcomes[d])} :
          /\ Becomes(FormResultsPanel(s))
          /\ raw_input' = text
    /\ handler' = button
    /\ UNCHANGED variant

\* The form user clicks Search.
FormSearch ==
    /\ variant = "form"
    /\ turns < MaxTurns
    /\ FormRun("search", Range(UserInputs))
    /\ turns' = turns + 1

\* The form user clicks Submit Clarification, which the last run must have drawn.
FormClarify ==
    /\ variant = "form"
    /\ clarify_rendered
    /\ turns < MaxTurns
    /\ FormRun("clarify", Range(UserInputs))
    /\ turns' = turns + 1

\* The form re-runs the script with no button clicked (any other widget event).
FormRerun ==
    /\ variant = "form"
    /\ FormRun("none", {<<>>})
    /\ UNCHANGED turns

Next == CliTurn \/ FormSearch \/ FormClarify \/ FormRerun

Spec == Init /\ [][Next]_vars

-----------------------------------------------------------------------------
(* Vocabulary of the properties *)

\* The last step was a user turn: a prompt answered or a button clicked.
UserTurn == handler \in {"loop", "search", "clarify"}

\* The last step called the interpreter and the call returned a value.
InterpreterReturned == llm_call.made /\ ~llm_call.result.raised

HasKey(a, key) == a.kind = "dict" /\ key \in DOMAIN a.d
HasStatus(a, status) == HasKey(a, "status") /\ a.d["status"] = Str(<<status>>)

CompleteResult(a) == HasStatus(a, "complete") /\ HasKey(a, "filters")
IncompleteResult(a) ==
    HasStatus(a, "incomplete") /\ HasKey(a, "question") /\ a.d["question"].kind = "str"
FailedResult(a) == HasStatus(a, "error") /\ HasKey(a, "error") /\ HasKey(a, "raw_response")

\* The replies that are not parseable as JSON: no choices, no content, an
\* object without content, prose, empty, truncated, trailing data.
UnparsableReply(response) == \E i \in 1..7 : response = Replies[i]

\* The text of a reply, as far as it has one.
RawReply(response) ==
    IF "content" \in DOMAIN response.choices[1].message
    THEN response.choices[1].message.content
    ELSE Object(response)

Displayed(fn, arg) == \E i \in DOMAIN output : output[i] = [fn |-> fn, arg |-> arg]
ExceptionShown == \E i \in DOMAIN output : output[i].fn = "exception"

Positions(what) == {i \in DOMAIN events : events[i] = what}

\* The history as the turn's handler got it, with the user's turn appended.
WithUserTurn ==
    Append(llm_call.history_after, [role |-> "user", content |-> llm_call.query])

-----------------------------------------------------------------------------
(* Properties *)

\* C1: for every model reply analyze_query returns and never raises, and for a
\* reply that cannot be parsed (not JSON, no content, no choices) the result is
\* the Failed variant with the parse error and the raw reply.
C1_AnalyzeNeverRaises ==
    llm_call.made =>
        /\ ~llm_call.result.raised
        /\ UnparsableReply(llm_call.response) =>
              /\ FailedResult(llm_call.result.value)
              /\ llm_call.result.value.d["raw_response"] = RawReply(llm_call.response)

\* C2: a user turn makes at most one language-model call and at most one
\* database query, and a query is made only after the turn's model call has
\* returned a Complete interpretation.
C2_OneCallThenOneQuery ==
    /\ Cardinality(Positions("llm")) <= 1
    /\ Cardinality(Positions("db")) <= 1
    /\ Positions("llm") # {} <=> llm_call.made
    /\ Positions("db") # {} =>
          /\ InterpreterReturned
          /\ CompleteResult(llm_call.result.value)
          /\ \A q \in Positions("db") : \E c \in Positions("llm") : c < q

C2_Witness ==
    /\ UserTurn
    /\ turns = 2
    /\ Positions("db") # {}
    /\ Positions("llm") # {}

\* C3: in both variants, when a turn's interpretation is Incomplete the question
\* is displayed or stored and is the assistant turn at the end of the history
\* when the next input is awaited.
C3_QuestionAppended ==
    (UserTurn /\ InterpreterReturned /\ IncompleteResult(llm_call.result.value)) =>
        /\ pc = "await"
        /\ \/ Displayed("print", Str(<<"\n">> \o llm_call.result.value.d["question"].s))
           \/ last_question = llm_call.result.value.d["question"]
        /\ conversation_history =
              Append(WithUserTurn,
                     [role |-> "assistant", content |-> llm_call.result.value.d["question"]])

\* C4: in both variants and on both input paths, when a turn's interpretation is
\* Failed the raw text is shown, no assistant turn is appended, no database
\* query is made and the session awaits the next input.
C4_FailedSurfaced ==
    (UserTurn /\ InterpreterReturned /\ FailedResult(llm_call.result.value)) =>
        /\ pc = "await"
        /\ \/ Displayed("print", llm_call.result.value.d["raw_response"])
           \/ Displayed("write", llm_call.result.value.d["raw_response"])
        /\ conversation_history = WithUserTurn
        /\ Positions("db") = {}

\* C5: for an interpretation of an unrecognized shape the adapter shows the
\* generic "could not process" message, appends nothing but the user's turn to
\* the history, and awaits the next input.
C5_UnrecognizedHandled ==
    (/\ UserTurn
     /\ InterpreterReturned
     /\ ~CompleteResult(llm_call.result.value)
     /\ ~IncompleteResult(llm_call.result.value)
     /\ ~FailedResult(llm_call.result.value)) =>
        /\ pc = "await"
        /\ \/ Displayed("print", Str(<<"\n", "Sorry, I could not process your request. Please try again.">>))
           \/ Displayed("error", Str(<<"Sorry, I could not process your request. Please try again.">>))
        /\ conversation_history = WithUserTurn

\* C6: every result analyze_query returns populates exactly one variant: an
\* Incomplete result has a question and no filter, a Complete result has a
\* filter and no question, and no result has both.
C6_ExactlyOneVariant ==
    InterpreterReturned =>
        LET a == llm_call.result.value IN
            /\ ~(HasKey(a, "question") /\ HasKey(a, "filters"))
            /\ HasStatus(a, "incomplete") => HasKey(a, "question") /\ ~HasKey(a, "filters")
            /\ HasStatus(a, "complete") => HasKey(a, "filters") /\ ~HasKey(a, "question")

\* The spellings of the exit sentinel among the inputs.
ExitSpellings ==
    { <<"e", "x", "i", "t">>, <<" ", "E", "x", "i", "t", "\n">>, <<"Q", "U", "I", "T">> }

\* C7: in the CLI loop an input that is "exit" or "quit" after trimming, in any
\* case, ends the session: no model call, no database query, no change to the
\* history, the filter or the results, and no step is taken after it.
C7_ExitEndsSession ==
    [][/\ pc # "done"
       /\ (variant = "cli" /\ turns' = turns + 1 /\ raw_input' \in ExitSpellings) =>
             /\ pc' = "done"
             /\ events' = <<"input">>
             /\ ~llm_call'.made
             /\ conversation_history' = conversation_history
             /\ filters' = filters
             /\ results' = results]_vars

C7_Witness ==
    /\ variant = "cli"
    /\ pc = "done"
    /\ raw_input \in ExitSpellings
    /\ conversation_history # <<>>

\* C8: the history is append-only: every step leaves the earlier history as a
\* prefix of the later one, and the interpreter call leaves the list it is
\* given as it was.
C8_HistoryAppendOnly ==
    [][/\ IsPrefix(conversation_history, conversation_history')
       /\ llm_call'.made => llm_call'.history_after = conversation_history]_vars

C8_Witness ==
    /\ llm_call.made
    /\ Len(conversation_history) >= 3
    /\ \E i \in DOMAIN conversation_history : conversation_history[i].role = "assistant"

\* C9: when a Complete interpretation's filter matches no listing, the CLI
\* prints format_results' fixed string (after its newline) and the form's
\* results panel shows that string as its only content.
C9_NoPropertiesMessage ==
    (UserTurn /\ Positions("db") # {} /\ ~ExceptionShown /\ results = List(<<>>)) =>
        IF variant = "cli"
        THEN output[2] = [fn |-> "print",
                          arg |-> Str(<<"\n", "No properties found matching your criteria.">>)]
        ELSE /\ output[Len(output)] =
                    [fn |-> "warning",
                     arg |-> Str(<<"No properties found matching your criteria.">>)]
             /\ \A i \in DOMAIN output : output[i].fn # "markdown"

C9_Witness ==
    /\ variant = "cli"
    /\ UserTurn
    /\ Positions("db") # {}
    /\ ~ExceptionShown
    /\ results = List(<<>>)

\* C10: the form session never holds a pending question and a result set
\* together.
C10_QuestionOrResults ==
    variant = "form" => ~(last_question # None /\ results # None)

C10_Witness ==
    /\ variant = "form"
    /\ handler = "clarify"
    /\ results # None
    /\ last_question = None

====
